---- MODULE Spec2Model ----
(***************************************************************************)
(* A model of the fastwebsockets framing engine (src/src/lib.rs): the read *)
(* half's restartable frame parser and its automatic replies, the write    *)
(* half's buffer, close latch and flush loop, and the unified WebSocket    *)
(* engine that routes obligated replies from the read half to the write    *)
(* half.  Bytes are the integers 0..255, buffers are sequences of bytes.   *)
(* usize is 64 bits wide (the cfg branch of lib.rs:708-709).               *)
(***************************************************************************)
EXTENDS Integers, Sequences, FiniteSets, TLC

(***************************************************************************)
(* Bounds of the model.                                                    *)
(***************************************************************************)
\* The peer sends at most this many frames on the connection.
MaxFrames == 2
\* The application submits at most this many frames for writing.
MaxSends == 1

(***************************************************************************)
(* Bytes and buffers.                                                      *)
(***************************************************************************)
\* Option<T>: None is the empty sequence, Some(x) the one-element sequence.
None == << >>

Some(x) == << x >>

\* bytes::Buf::advance / BytesMut::split_to: the buffer without its first n bytes.
Drop(buffer, n) == SubSeq(buffer, n + 1, Len(buffer))

Take(buffer, n) == SubSeq(buffer, 1, n)

\* Bit k (0 = least significant) of byte b.
Bit(b, k) == (b \div (2 ^ k)) % 2

XorByte(a, b) ==
  LET X(k) == ((Bit(a, k) + Bit(b, k)) % 2) * (2 ^ k)
  IN  X(0) + X(1) + X(2) + X(3) + X(4) + X(5) + X(6) + X(7)

\* Big-endian value of a byte sequence (Buf::get_u16 / get_u64).
RECURSIVE BigEndian(_)
BigEndian(bytes) ==
  IF bytes = << >> THEN 0
  ELSE BigEndian(Take(bytes, Len(bytes) - 1)) * 256 + bytes[Len(bytes)]

\* n as `width` big-endian bytes (u16::to_be_bytes / u64::to_be_bytes).
RECURSIVE ToBigEndian(_, _)
ToBigEndian(n, width) ==
  IF width = 0 THEN << >>
  ELSE Append(ToBigEndian(n \div 256, width - 1), n % 256)

\* std::str::from_utf8(..).is_ok(): well-formed UTF-8 (RFC 3629), from index i.
RECURSIVE Utf8From(_, _)
Utf8From(s, i) ==
  IF i > Len(s) THEN TRUE
  ELSE LET b0 == s[i]
           In(k, lo, hi) == i + k <= Len(s) /\ s[i + k] >= lo /\ s[i + k] <= hi
           Cont(k) == In(k, 128, 191)
       IN  IF b0 < 128 THEN Utf8From(s, i + 1)
           ELSE IF b0 >= 194 /\ b0 <= 223 THEN Cont(1) /\ Utf8From(s, i + 2)
           ELSE IF b0 = 224 THEN In(1, 160, 191) /\ Cont(2) /\ Utf8From(s, i + 3)
           ELSE IF b0 = 237 THEN In(1, 128, 159) /\ Cont(2) /\ Utf8From(s, i + 3)
           ELSE IF b0 >= 225 /\ b0 <= 239
             THEN Cont(1) /\ Cont(2) /\ Utf8From(s, i + 3)
           ELSE IF b0 = 240
             THEN In(1, 144, 191) /\ Cont(2) /\ Cont(3) /\ Utf8From(s, i + 4)
           ELSE IF b0 >= 241 /\ b0 <= 243
             THEN Cont(1) /\ Cont(2) /\ Cont(3) /\ Utf8From(s, i + 4)
           ELSE IF b0 = 244
             THEN In(1, 128, 143) /\ Cont(2) /\ Cont(3) /\ Utf8From(s, i + 4)
           ELSE FALSE

from_utf8_is_ok(bytes) == Utf8From(bytes, 1)

(***************************************************************************)
(* The frame value (crate::frame), the masker (crate::mask) and the close  *)
(* codes (crate::close).                                                   *)
(***************************************************************************)
\* OpCode::try_from(u8); "Invalid" stands for Err(InvalidValue).
OpCodeTryFrom(nibble) ==
  CASE nibble = 0 -> "Continuation"
    [] nibble = 1 -> "Text"
    [] nibble = 2 -> "Binary"
    [] nibble = 8 -> "Close"
    [] nibble = 9 -> "Ping"
    [] nibble = 10 -> "Pong"
    [] OTHER -> "Invalid"

\* OpCode as u8.
OpCodeToU8(opcode) ==
  CASE opcode = "Continuation" -> 0
    [] opcode = "Text" -> 1
    [] opcode = "Binary" -> 2
    [] opcode = "Close" -> 8
    [] opcode = "Ping" -> 9
    [] opcode = "Pong" -> 10

\* frame::is_control.
is_control(opcode) == opcode \in {"Close", "Ping", "Pong"}

\* Frame::new(fin, opcode, mask, payload).
Frame(fin, opcode, mask, payload) ==
  [fin |-> fin, opcode |-> opcode, mask |-> mask, payload |-> payload]

\* mask::unmask(buf, key): buf[i] ^= key[i % 4].
apply_mask(payload, key) ==
  [i \in 1..Len(payload) |-> XorByte(payload[i], key[((i - 1) % 4) + 1])]

\* Frame::unmask: applies the frame's mask, if any, and clears it.
unmask(frame) ==
  IF frame.mask = None THEN frame
  ELSE Frame(frame.fin, frame.opcode, None, apply_mask(frame.payload, frame.mask[1]))

\* Frame::is_utf8.
is_utf8(frame) == from_utf8_is_ok(frame.payload)

\* Frame::pong(payload).
pong(payload) == Frame(TRUE, "Pong", None, payload)

\* Frame::close_raw(payload).
close_raw(payload) == Frame(TRUE, "Close", None, payload)

\* Frame::close(code, reason): the code as a big-endian u16, then the reason.
close(code, reason) == Frame(TRUE, "Close", None, ToBigEndian(code, 2) \o reason)

\* CloseCode::from(u16) followed by CloseCode::is_allowed.
is_allowed(code) ==
  \/ code >= 1000 /\ code <= 1011 /\ code \notin {1004, 1005, 1006}
  \/ code >= 3000 /\ code <= 4999

\* Frame::fmt_head: the RFC 6455 header of the frame, RSV bits zero.
fmt_head(frame) ==
  LET len == Len(frame.payload)
      b0 == (IF frame.fin THEN 128 ELSE 0) + OpCodeToU8(frame.opcode)
      m == IF frame.mask = None THEN 0 ELSE 128
      key == IF frame.mask = None THEN << >> ELSE frame.mask[1]
  IN  IF len <= 125 THEN << b0, m + len >> \o key
      ELSE IF len <= 65535 THEN << b0, m + 126 >> \o ToBigEndian(len, 2) \o key
      ELSE << b0, m + 127 >> \o ToBigEndian(len, 8) \o key

(***************************************************************************)
(* The read half: ReadHalf::poll_parse_frame_header as a function of the   *)
(* read buffer.  The parser keeps no state but the buffer: every poll      *)
(* re-examines the buffered bytes from the start, and read_next!() is the  *)
(* only suspension point.                                                  *)
(***************************************************************************)
NoFrame == Frame(FALSE, "Invalid", None, << >>)

\* The buffer holds too few bytes: the parser is at a read_next!().
NeedRead == [kind |-> "NeedRead", err |-> "", frame |-> NoFrame, size |-> 0]

ParseErr(e) == [kind |-> "Err", err |-> e, frame |-> NoFrame, size |-> 0]

\* A whole frame of `size` = header_size + payload_len bytes is split off.
Parsed(frame, size) == [kind |-> "Frame", err |-> "", frame |-> frame, size |-> size]

\* A parser that looks at RSV1 only (bit 0x40).
reserved_bits_rsv1(b0) == Bit(b0, 6) = 1

\* lib.rs:679-683: a reserved bit of the first byte is set.
reserved_bits(b0) == Bit(b0, 6) = 1 \/ Bit(b0, 5) = 1 \/ Bit(b0, 4) = 1

\* A parser that checks the sizes before the FIN bit of a control frame.
header_checks_size_first(fin, opcode, payload_len, max_message_size) ==
  IF opcode = "Ping" /\ payload_len > 125 THEN "PingFrameTooLarge"
  ELSE IF payload_len >= max_message_size THEN "FrameTooLarge"
  ELSE IF opcode \in {"Close", "Ping", "Pong"} /\ ~fin THEN "ControlFrameFragmented"
  ELSE ""

\* A parser that lets a payload of exactly max_message_size bytes through.
header_checks_max_allowed(fin, opcode, payload_len, max_message_size) ==
  IF opcode \in {"Close", "Ping", "Pong"} /\ ~fin THEN "ControlFrameFragmented"
  ELSE IF opcode = "Ping" /\ payload_len > 125 THEN "PingFrameTooLarge"
  ELSE IF payload_len > max_message_size THEN "FrameTooLarge"
  ELSE ""

\* lib.rs:729-739: the checks on a complete header, in the code's order; "" when
\* the header passes.
header_checks(fin, opcode, payload_len, max_message_size) ==
  IF is_control(opcode) /\ ~fin THEN "ControlFrameFragmented"
  ELSE IF opcode = "Ping" /\ payload_len > 125 THEN "PingFrameTooLarge"
  ELSE IF payload_len >= max_message_size THEN "FrameTooLarge"
  ELSE ""

\* A parser that splits the payload and the two fixed header bytes off.
frame_size_fixed_header(header_size, payload_len) == payload_len + 2

\* lib.rs:747: the number of bytes split_to takes off the buffer for a frame.
frame_size(header_size, payload_len) == payload_len + header_size

poll_parse_frame_header(buffer, max_message_size) ==
  IF Len(buffer) < 2 THEN NeedRead
  ELSE
    LET fin == Bit(buffer[1], 7) = 1
        opcode == OpCodeTryFrom(buffer[1] % 16)
        masked == Bit(buffer[2], 7) = 1
        length_code == buffer[2] % 128
        extra == CASE length_code = 126 -> 2
                   [] length_code = 127 -> 8
                   [] OTHER -> 0
        header_size == 2 + extra + (IF masked THEN 4 ELSE 0)
    IN  IF reserved_bits(buffer[1]) THEN ParseErr("ReservedBitsNotZero")
        ELSE IF opcode = "Invalid" THEN ParseErr("InvalidValue")
        ELSE IF Len(buffer) < header_size THEN NeedRead
        ELSE
          LET payload_len == IF extra = 0 THEN length_code
                             ELSE BigEndian(SubSeq(buffer, 3, 2 + extra))
              mask == IF masked THEN Some(SubSeq(buffer, 3 + extra, 6 + extra))
                      ELSE None
              check == header_checks(fin, opcode, payload_len, max_message_size)
          IN  IF check # "" THEN ParseErr(check)
              ELSE IF header_size + payload_len > Len(buffer) THEN NeedRead
              ELSE Parsed(Frame(fin, opcode, mask,
                                SubSeq(buffer, header_size + 1, header_size + payload_len)),
                          frame_size(header_size, payload_len))

(***************************************************************************)
(* ReadHalf::poll_read_frame_inner after the parse: the unmask step and    *)
(* the automatic behaviours.  The value is the pair the method returns:    *)
(* res is Ok(frame option) (err = "") or Err(err); obligated is the frame  *)
(* the caller must send.                                                   *)
(***************************************************************************)
Inner(err, frame, obligated) == [err |-> err, frame |-> frame, obligated |-> obligated]

\* A Close arm whose echo carries no payload.
close_echo_empty(frame) == Inner("", Some(frame), Some(close_raw(<< >>)))

\* lib.rs:635-636: the Close is handed to the caller, its payload echoed.
close_echo(frame) == Inner("", Some(frame), Some(close_raw(frame.payload)))

\* A Close arm that reports a code that is not allowed and owes no reply.
close_policed_silent(reason) == Inner("InvalidCloseCode", None, None)

\* lib.rs:626-631: the code is not allowed.
close_policed(reason) == Inner("InvalidCloseCode", None, Some(close(1002, reason)))

\* The Close arm (lib.rs:605-637).
close_arm(frame) ==
  IF Len(frame.payload) = 0 THEN close_echo(frame)
  ELSE IF Len(frame.payload) = 1 THEN Inner("InvalidCloseFrame", None, None)
  ELSE
    LET code == BigEndian(SubSeq(frame.payload, 1, 2))
        reason == SubSeq(frame.payload, 3, Len(frame.payload))
    IN  IF ~from_utf8_is_ok(reason) THEN Inner("InvalidUTF8", None, None)
        ELSE IF ~is_allowed(code) THEN close_policed(reason)
        ELSE close_echo(frame)

\* A Ping arm whose Pong carries no payload.
ping_arm_empty(frame) == Inner("", None, Some(pong(<< >>)))

\* The Ping arm (lib.rs:638-640).
ping_arm(frame) == Inner("", None, Some(pong(frame.payload)))

\* A Text arm that checks every Text frame, final or not.
text_arm_strict(frame) ==
  IF ~is_utf8(frame) THEN Inner("InvalidUTF8", None, None)
  ELSE Inner("", Some(frame), None)

\* A Text arm that hands every Text frame over unchecked.
text_arm_unchecked(frame) == Inner("", Some(frame), None)

\* The Text arm (lib.rs:641-647).
text_arm(frame) ==
  IF frame.fin /\ ~is_utf8(frame) THEN Inner("InvalidUTF8", None, None)
  ELSE Inner("", Some(frame), None)

\* A read half that automates Close and Ping whatever its options say.
poll_read_frame_inner_automatic(half, parsed) ==
  LET frame == IF half.role = "Server" /\ half.auto_apply_mask THEN unmask(parsed)
               ELSE parsed
  IN  IF frame.opcode = "Close" THEN close_arm(frame)
      ELSE IF frame.opcode = "Ping" THEN ping_arm(frame)
      ELSE IF frame.opcode = "Text" THEN text_arm(frame)
      ELSE Inner("", Some(frame), None)

poll_read_frame_inner(half, parsed) ==
  LET frame == IF half.role = "Server" /\ half.auto_apply_mask THEN unmask(parsed)
               ELSE parsed
  IN  IF frame.opcode = "Close" /\ half.auto_close THEN close_arm(frame)
      ELSE IF frame.opcode = "Ping" /\ half.auto_pong THEN ping_arm(frame)
      ELSE IF frame.opcode = "Text" THEN text_arm(frame)
      ELSE Inner("", Some(frame), None)

(***************************************************************************)
(* The write half: WriteHalf::start_send_frame as a function of the half,  *)
(* the frame and the key Frame::mask draws; and one turn of poll_flush's   *)
(* loop.                                                                   *)
(***************************************************************************)
\* Frame::mask with the random key `key`: a frame without a mask is masked with
\* it; a frame that carries a mask has that mask applied.
mask_frame(frame, key) ==
  IF frame.mask = None
    THEN Frame(frame.fin, frame.opcode, Some(key), apply_mask(frame.payload, key))
  ELSE Frame(frame.fin, frame.opcode, frame.mask,
             apply_mask(frame.payload, frame.mask[1]))

\* The frame start_send_frame serializes (lib.rs:786-788).
outgoing(half, frame, key) ==
  IF half.role = "Client" /\ half.auto_apply_mask THEN mask_frame(frame, key)
  ELSE frame

\* The bytes start_send_frame appends for the frame (lib.rs:796-797).
serialize(frame) == fmt_head(frame) \o frame.payload

\* A write half that forgets the Close it has accepted.
latch_forgotten(closed, opcode) == closed

\* The close latch (lib.rs:790-794): the new value of `closed`.
latch(closed, opcode) == IF opcode = "Close" THEN TRUE ELSE closed

\* Whether start_send_frame rejects the frame (lib.rs:792-793).
rejected(closed, opcode) == opcode # "Close" /\ closed

\* A start_send_frame that looks at `closed` after it has written the frame.
start_send_frame_late_check(half, frame, key) ==
  LET out == outgoing(half, frame, key)
  IN  [err |-> IF rejected(half.closed, out.opcode) THEN "ConnectionClosed" ELSE "",
       half |-> [half EXCEPT !.closed = latch(half.closed, out.opcode),
                             !.buffer = half.buffer \o serialize(out)]]

\* start_send_frame: the result and the write half it leaves.
start_send_frame(half, frame, key) ==
  LET out == outgoing(half, frame, key)
  IN  IF rejected(half.closed, out.opcode)
        THEN [err |-> "ConnectionClosed", half |-> half]
      ELSE [err |-> "",
            half |-> [half EXCEPT !.closed = latch(half.closed, out.opcode),
                                  !.buffer = half.buffer \o serialize(out)]]

\* A flush that takes the whole buffer for written after any write.
advance_all(buffer, written) == << >>

\* Buf::advance(written) on the write buffer (lib.rs:827).
advance(buffer, written) == Drop(buffer, written)

\* What the stream answers in one turn of poll_flush's loop: its poll_flush
\* (Ok, Pending, Err) and, when that is Ok and the buffer is not empty, its
\* poll_write of the buffer (Pending, Err, or n <= len bytes accepted).
StreamAnswers(buffer) ==
  {[flush |-> "Pending", write |-> "", n |-> 0], [flush |-> "Err", write |-> "", n |-> 0]}
  \cup (IF buffer = << >> THEN {[flush |-> "Ok", write |-> "", n |-> 0]}
        ELSE {[flush |-> "Ok", write |-> "Pending", n |-> 0],
              [flush |-> "Ok", write |-> "Err", n |-> 0]}
             \cup {[flush |-> "Ok", write |-> "Ok", n |-> n] : n \in 0..Len(buffer)})

Turn(poll, err, half, written) ==
  [poll |-> poll, err |-> err, half |-> half, written |-> written]

\* A poll_flush that takes a write of 0 bytes for the end of the flush.
poll_flush_zero_ok(half, io) ==
  IF io.flush = "Pending" THEN Turn("Pending", "", half, 0)
  ELSE IF io.flush = "Err" THEN Turn("Ready", "IoError", half, 0)
  ELSE IF half.buffer = << >> THEN Turn("Ready", "", half, 0)
  ELSE IF io.write = "Pending" THEN Turn("Pending", "", half, 0)
  ELSE IF io.write = "Err" THEN Turn("Ready", "IoError", half, 0)
  ELSE IF io.n = 0 THEN Turn("Ready", "", half, 0)
  ELSE Turn("Loop", "", [half EXCEPT !.buffer = Drop(half.buffer, io.n)], io.n)

\* A poll_flush that returns Ok after the first write the stream completes.
poll_flush_one_write(half, io) ==
  IF io.flush = "Pending" THEN Turn("Pending", "", half, 0)
  ELSE IF io.flush = "Err" THEN Turn("Ready", "IoError", half, 0)
  ELSE IF half.buffer = << >> THEN Turn("Ready", "", half, 0)
  ELSE IF io.write = "Pending" THEN Turn("Pending", "", half, 0)
  ELSE IF io.write = "Err" THEN Turn("Ready", "IoError", half, 0)
  ELSE IF io.n = 0 THEN Turn("Ready", "ConnectionClosed", half, 0)
  ELSE Turn("Ready", "", [half EXCEPT !.buffer = Drop(half.buffer, io.n)], io.n)

\* One turn of the loop of WriteHalf::poll_flush under the stream's answer io:
\* poll = "Pending" | "Ready" (with err, "" for Ok(())) | "Loop" (written bytes
\* were accepted and the loop goes round).
poll_flush(half, io) ==
  IF io.flush = "Pending" THEN Turn("Pending", "", half, 0)
  ELSE IF io.flush = "Err" THEN Turn("Ready", "IoError", half, 0)
  ELSE IF half.buffer = << >> THEN Turn("Ready", "", half, 0)
  ELSE IF io.write = "Pending" THEN Turn("Pending", "", half, 0)
  ELSE IF io.write = "Err" THEN Turn("Ready", "IoError", half, 0)
  ELSE IF io.n = 0 THEN Turn("Ready", "ConnectionClosed", half, 0)
  ELSE Turn("Loop", "", [half EXCEPT !.buffer = advance(half.buffer, io.n)], io.n)

(***************************************************************************)
(* The peer.  A peer frame is what the other endpoint puts on the wire:    *)
(* any header bits, a declared length in any of the three encodings, and   *)
(* the payload bytes that follow (fewer than declared when the peer stops  *)
(* mid-frame).                                                             *)
(***************************************************************************)
MaskKey == << 55, 250, 33, 61 >>

PeerFrame(fin, rsv, nibble, mask, extra, len, payload) ==
  [fin |-> fin, rsv |-> rsv, nibble |-> nibble, mask |-> mask, extra |-> extra,
   len |-> len, payload |-> payload]

\* A frame as a conforming encoder writes it; `payload` is the application's.
WellFormed(fin, opcode, masked, payload) ==
  PeerFrame(fin, 0, OpCodeToU8(opcode), IF masked THEN Some(MaskKey) ELSE None, 0,
            Len(payload), IF masked THEN apply_mask(payload, MaskKey) ELSE payload)

\* RFC 6455 section 5.2: the bytes of the peer frame on the wire.
WireBytes(pf) ==
  LET code == IF pf.extra = 0 THEN pf.len ELSE IF pf.extra = 2 THEN 126 ELSE 127
  IN  << (IF pf.fin THEN 128 ELSE 0) + pf.rsv * 16 + pf.nibble,
         (IF pf.mask = None THEN 0 ELSE 128) + code >>
      \o (IF pf.extra = 0 THEN << >> ELSE ToBigEndian(pf.len, pf.extra))
      \o (IF pf.mask = None THEN << >> ELSE pf.mask[1])
      \o pf.payload

RECURSIVE Flatten(_)
Flatten(frames) ==
  IF frames = << >> THEN << >>
  ELSE WireBytes(Head(frames)) \o Flatten(Tail(frames))

\* All sequences over S of length 1..n.
RECURSIVE SeqsUpTo(_, _)
SeqsUpTo(S, n) ==
  IF n = 0 THEN {}
  ELSE {<< x >> : x \in S} \cup {Append(q, x) : q \in SeqsUpTo(S, n - 1), x \in S}

\* The frame the parser must yield for a complete peer frame.
Decoded(pf) == Frame(pf.fin, OpCodeTryFrom(pf.nibble), pf.mask, pf.payload)

\* The peer's frames the unified engine is run against.  A conforming peer: a
\* client masks its frames, a server does not.  The Close frames with a code
\* come from a client only: the read half treats them alike in both roles.
EngineFrames(role) ==
  IF role = "Server"
    THEN {WellFormed(TRUE, "Ping", TRUE, << 97 >>),
          WellFormed(TRUE, "Text", TRUE, << 97 >>),
          WellFormed(TRUE, "Close", TRUE, << >>),
          WellFormed(TRUE, "Close", TRUE, << 3, 232 >>),
          WellFormed(TRUE, "Close", TRUE, << 3, 231 >>)}
    ELSE {WellFormed(TRUE, "Ping", FALSE, << 97 >>),
          WellFormed(TRUE, "Text", FALSE, << 97 >>),
          WellFormed(TRUE, "Close", FALSE, << >>)}

\* The frames the application writes.
SendFrames ==
  {Frame(TRUE, "Text", None, << 97 >>), Frame(TRUE, "Close", None, << >>)}

\* The keys Frame::mask may draw (rand::random).
RandomKeys == {<< 1, 2, 3, 4 >>}

(***************************************************************************)
(* The state.                                                              *)
(***************************************************************************)
VARIABLES
  read_half,   \* ReadHalf: role, auto_apply_mask, auto_close, auto_pong,
               \* max_message_size, buffer
  write_half,  \* WriteHalf: role, closed, auto_apply_mask, buffer
  wire,        \* the stream's read side: bytes of the peer not yet read
  sent,        \* the stream's write side: bytes poll_write has accepted
  pc,          \* where the caller is: "idle", "failed", "read" (WebSocket::read_frame, in the
               \* parser), "read_flush" (read_frame, in poll_flush of a reply),
               \* "read_pending" (read_frame returned Pending from that flush),
               \* "write" (write_frame, in poll_flush), "inner" (read_frame_inner),
               \* "split" (WebSocketRead::read_frame, in read_frame_inner),
               \* "split_send" (WebSocketRead::read_frame, awaiting send_fn)
  locals,      \* poll_read_frame's (res, obligated_send) and is_closed for the last
               \* frame it split off (history once the turn is over)
  ret,         \* what the last call returned, NoRet while a call is in progress
  peer,        \* history: the frames the peer put on the wire
  yielded,     \* history: the frames poll_parse_frame_header has split off
  accepted,    \* history: the RFC 6455 bytes of the frames start_send_frame accepted
  sends,       \* history: every start_send_frame call: opcode, result, automatic
  owed,        \* history: this read_frame call enqueued a reply on the open write half
  calls        \* history: every call of WebSocketRead::read_frame's send_fn: the
               \* frame, the index in `yielded` of the frame that obligated it, and
               \* the result ("" while send_fn has not returned)

vars ==
  << read_half, write_half, wire, sent, pc, locals, ret, peer, yielded, accepted,
     sends, owed, calls >>

DefaultMaxMessageSize == 67108864

Roles == {"Server", "Client"}

\* ReadHalf::after_handshake.
ReadHalf_after_handshake(role) ==
  [role |-> role, auto_apply_mask |-> TRUE, auto_close |-> TRUE, auto_pong |-> TRUE,
   max_message_size |-> DefaultMaxMessageSize, buffer |-> << >>]

\* WriteHalf::after_handshake.
WriteHalf_after_handshake(role) ==
  [role |-> role, closed |-> FALSE, auto_apply_mask |-> TRUE, buffer |-> << >>]

\* `of` is the index in `yielded` of the frame the call consumed, 0 for none.
NoRet == [op |-> "", err |-> "", frame |-> None, obligated |-> None, of |-> 0]

NoLocals == [inner |-> Inner("", None, None), is_closed |-> FALSE, of |-> 0]

\* WebSocket::after_handshake(stream, role), the peer about to send `frames`.
after_handshake(role, frames) ==
  /\ read_half = ReadHalf_after_handshake(role)
  /\ write_half = WriteHalf_after_handshake(role)
  /\ wire = Flatten(frames)
  /\ sent = << >>
  /\ pc = "idle"
  /\ locals = NoLocals
  /\ ret = NoRet
  /\ peer = frames
  /\ yielded = << >>
  /\ accepted = << >>
  /\ sends = << >>
  /\ owed = FALSE
  /\ calls = << >>

Init ==
  \E role \in Roles :
    \E frames \in SeqsUpTo(EngineFrames(role), MaxFrames) :
      after_handshake(role, frames)

(***************************************************************************)
(* The setters, called before the first read or write.                     *)
(***************************************************************************)
Fresh == pc = "idle" /\ ret = NoRet

set_auto_close(auto_close) ==
  /\ Fresh
  /\ read_half' = [read_half EXCEPT !.auto_close = auto_close]
  /\ UNCHANGED << write_half, wire, sent, pc, locals, ret, peer, calls, yielded, accepted,
                  sends, owed >>

set_auto_pong(auto_pong) ==
  /\ Fresh
  /\ read_half' = [read_half EXCEPT !.auto_pong = auto_pong]
  /\ UNCHANGED << write_half, wire, sent, pc, locals, ret, peer, calls, yielded, accepted,
                  sends, owed >>

(***************************************************************************)
(* Reading: read_next!() of poll_parse_frame_header, for WebSocket and for *)
(* ReadHalf::read_frame_inner alike.                                       *)
(***************************************************************************)
ParseNow == poll_parse_frame_header(read_half.buffer, read_half.max_message_size)

AtReadNext == pc \in {"read", "inner", "split"} /\ ParseNow.kind = "NeedRead"

OpOf(at) ==
  IF at = "inner" THEN "read_frame_inner"
  ELSE IF at = "split" THEN "WebSocketRead::read_frame"
  ELSE "read_frame"

Return(op, err, frame, obligated, of) ==
  /\ pc' = "idle"
  /\ ret' = [op |-> op, err |-> err, frame |-> frame, obligated |-> obligated, of |-> of]

\* The call returns the stream's failure: an I/O error, or a write that accepted
\* nothing.  The caller gives the connection up: the model does not follow a
\* caller that goes on with a failed stream.
Abort(op, err) ==
  /\ pc' = "failed"
  /\ ret' = [op |-> op, err |-> err, frame |-> None, obligated |-> None, of |-> 0]

\* poll_read_buf puts k >= 1 bytes of the stream into the read buffer.
ReadNext(k) ==
  /\ AtReadNext
  /\ k \in 1..Len(wire)
  /\ read_half' = [read_half EXCEPT !.buffer = @ \o Take(wire, k)]
  /\ wire' = Drop(wire, k)
  /\ UNCHANGED << write_half, sent, pc, locals, ret, peer, calls, yielded, accepted, sends,
                  owed >>

\* poll_read_buf reads 0 bytes: the peer has closed the stream.
ReadEof ==
  /\ AtReadNext
  /\ wire = << >>
  /\ Return(OpOf(pc), "UnexpectedEOF", None, None, 0)
  /\ UNCHANGED << read_half, write_half, wire, sent, locals, peer, calls, yielded, accepted,
                  sends, owed >>

\* poll_read_buf fails.
ReadIoError ==
  /\ AtReadNext
  /\ Abort(OpOf(pc), "IoError")
  /\ UNCHANGED << read_half, write_half, wire, sent, locals, peer, calls, yielded, accepted,
                  sends, owed >>

(***************************************************************************)
(* ReadHalf::read_frame_inner, called on the read half alone.              *)
(***************************************************************************)
read_frame_inner ==
  /\ pc = "idle"
  /\ pc' = "inner"
  /\ ret' = NoRet
  /\ UNCHANGED << read_half, write_half, wire, sent, locals, peer, calls, yielded, accepted,
                  sends, owed >>

\* The parser has an answer: an error, or a frame that goes through the
\* automatic behaviours.
InnerReady ==
  /\ pc = "inner"
  /\ LET p == ParseNow
     IN  /\ p.kind # "NeedRead"
         /\ IF p.kind = "Err"
              THEN /\ Return("read_frame_inner", p.err, None, None, 0)
                   /\ UNCHANGED << read_half, yielded >>
              ELSE LET inner == poll_read_frame_inner(read_half, p.frame)
                   IN  /\ read_half' = [read_half EXCEPT !.buffer = Drop(@, p.size)]
                       /\ yielded' = Append(yielded, p.frame)
                       /\ Return("read_frame_inner", inner.err, inner.frame,
                                 inner.obligated, Len(yielded) + 1)
  /\ UNCHANGED << write_half, wire, sent, locals, peer, calls, accepted, sends, owed >>

(***************************************************************************)
(* The write half in use.                                                  *)
(***************************************************************************)
\* RFC 6455's bytes for a frame, as the peer's decoder expects them.
RefBytes(frame) ==
  LET len == Len(frame.payload)
  IN  WireBytes(PeerFrame(frame.fin, 0, OpCodeToU8(frame.opcode), frame.mask,
                          IF len <= 125 THEN 0 ELSE IF len <= 65535 THEN 2 ELSE 8,
                          len, frame.payload))

AppSends == Len(SelectSeq(sends, LAMBDA e : ~e.auto))

\* start_send_frame(frame) takes effect: the write half, and the histories.
Submit(frame, key, auto) ==
  LET s == start_send_frame(write_half, frame, key)
  IN  /\ write_half' = s.half
      /\ sends' = Append(sends, [opcode |-> frame.opcode, err |-> s.err, auto |-> auto])
      /\ accepted' = IF s.err = "" THEN accepted \o RefBytes(outgoing(write_half, frame, key))
                     ELSE accepted

\* One turn of poll_flush takes effect on the write half and the stream.
FlushTurn(t) ==
  /\ write_half' = t.half
  /\ sent' = sent \o Take(write_half.buffer, t.written)

(***************************************************************************)
(* WebSocket::write_frame: start_send_frame, then poll_flush until Ready.  *)
(***************************************************************************)
write_frame(frame, key) ==
  /\ pc = "idle"
  /\ AppSends < MaxSends
  /\ Submit(frame, key, FALSE)
  /\ IF start_send_frame(write_half, frame, key).err # ""
       THEN Return("write_frame", "ConnectionClosed", None, None, 0)
       ELSE pc' = "write" /\ ret' = NoRet
  /\ UNCHANGED << read_half, wire, sent, locals, peer, calls, yielded, owed >>

\* A turn of write_frame's poll_flush; on Pending the caller polls again later.
WriteFlush(io) ==
  /\ pc = "write"
  /\ LET t == poll_flush(write_half, io)
     IN  /\ t.poll # "Pending"
         /\ FlushTurn(t)
         /\ IF t.poll = "Loop" THEN UNCHANGED << pc, ret >>
            ELSE IF t.err # "" THEN Abort("write_frame", t.err)
            ELSE Return("write_frame", "", None, None, 0)
  /\ UNCHANGED << read_half, wire, locals, peer, calls, yielded, accepted, sends, owed >>

(***************************************************************************)
(* WebSocket::read_frame = poll_fn(poll_read_frame).                       *)
(***************************************************************************)
read_frame ==
  /\ pc = "idle"
  /\ pc' = "read"
  /\ ret' = NoRet
  /\ owed' = FALSE
  /\ UNCHANGED << read_half, write_half, wire, sent, locals, peer, calls, yielded, accepted,
                  sends >>

\* An engine that hands every frame over, the write half closed or not.
Deliver_unguarded(l) ==
  IF l.inner.err # "" THEN Return("read_frame", l.inner.err, None, l.inner.obligated, l.of)
  ELSE IF l.inner.frame = None THEN pc' = "read" /\ ret' = ret
  ELSE Return("read_frame", "", l.inner.frame, l.inner.obligated, l.of)

\* lib.rs:545-551: the end of a turn of poll_read_frame's loop, for the values
\* l of its locals.
Deliver(l) ==
  IF l.inner.err # "" THEN Return("read_frame", l.inner.err, None, l.inner.obligated, l.of)
  ELSE IF l.inner.frame = None THEN pc' = "read" /\ ret' = ret
  ELSE IF l.is_closed /\ l.inner.frame[1].opcode # "Close"
    THEN Return("read_frame", "ConnectionClosed", None, l.inner.obligated, l.of)
  ELSE Return("read_frame", "", l.inner.frame, l.inner.obligated, l.of)

\* An engine that sends every obligated reply, the write half closed or not.
reply_sent_always(obligated, is_closed) == obligated # None

\* lib.rs:538-539: the obligated reply goes to the write half.
reply_sent(obligated, is_closed) == obligated # None /\ ~is_closed

\* lib.rs:534-543: the parser has an answer; an obligated reply is enqueued
\* when the write half is not closed.  `locals` keeps the values of (res,
\* obligated_send) and is_closed of the last frame split off.
ReadReady ==
  /\ pc = "read"
  /\ LET p == ParseNow
         l == [inner |-> poll_read_frame_inner(read_half, p.frame),
               is_closed |-> write_half.closed, of |-> Len(yielded) + 1]
     IN  /\ p.kind # "NeedRead"
         /\ IF p.kind = "Err"
              THEN /\ Return("read_frame", p.err, None, None, 0)
                   /\ UNCHANGED << read_half, write_half, locals, yielded, accepted,
                                   sends, owed >>
              ELSE /\ read_half' = [read_half EXCEPT !.buffer = Drop(@, p.size)]
                   /\ yielded' = Append(yielded, p.frame)
                   /\ locals' = l
                   /\ IF reply_sent(l.inner.obligated, l.is_closed)
                        THEN \E key \in RandomKeys :
                               /\ Submit(l.inner.obligated[1], key, TRUE)
                               /\ owed' = TRUE
                               /\ IF start_send_frame(write_half, l.inner.obligated[1],
                                                      key).err # ""
                                    THEN Return("read_frame", "ConnectionClosed", None,
                                                l.inner.obligated, l.of)
                                    ELSE pc' = "read_flush" /\ ret' = ret
                        ELSE /\ Deliver(l)
                             /\ UNCHANGED << write_half, accepted, sends, owed >>
  /\ UNCHANGED << wire, sent, peer, calls >>

\* lib.rs:541: a turn of the reply's poll_flush.  Pending makes poll_read_frame
\* return Pending: its locals are gone, and the next poll starts at the parser.
ReadFlush(io) ==
  /\ pc = "read_flush"
  /\ LET t == poll_flush(write_half, io)
     IN  /\ FlushTurn(t)
         /\ IF t.poll = "Loop" THEN UNCHANGED << pc, ret >>
            ELSE IF t.poll = "Pending" THEN pc' = "read_pending" /\ ret' = ret
            ELSE IF t.err # "" THEN Abort("read_frame", t.err)
            ELSE Deliver(locals)
  /\ UNCHANGED << read_half, wire, locals, peer, calls, yielded, accepted, sends, owed >>

\* The task is woken and read_frame's poll_fn polls poll_read_frame again.
Repoll ==
  /\ pc = "read_pending"
  /\ pc' = "read"
  /\ UNCHANGED << read_half, write_half, wire, sent, locals, ret, peer, calls, yielded,
                  accepted, sends, owed >>

\* The caller drops a future that returned Pending.
Cancel ==
  /\ pc \in {"write", "read_pending"} \/ AtReadNext
  /\ pc' = "idle"
  /\ ret' = [NoRet EXCEPT !.op = "cancelled"]
  /\ UNCHANGED << read_half, write_half, wire, sent, locals, peer, calls, yielded, accepted,
                  sends, owed >>

\* The sizes of the reads the unified engine is run against: the stream hands
\* over the rest of the peer's current frame, or all the peer has written.
FrameChunks ==
  {Len(wire)}
  \cup (IF Len(yielded) < Len(peer)
        THEN {Len(WireBytes(peer[Len(yielded) + 1])) - Len(read_half.buffer)}
        ELSE {})

Next ==
  \/ read_frame
  \/ \E k \in FrameChunks : ReadNext(k)
  \/ ReadEof
  \/ ReadIoError
  \/ ReadReady
  \/ \E io \in StreamAnswers(write_half.buffer) : ReadFlush(io)
  \/ Repoll
  \/ \E frame \in SendFrames, key \in RandomKeys : write_frame(frame, key)
  \/ \E io \in StreamAnswers(write_half.buffer) : WriteFlush(io)
  \/ Cancel

Spec == Init /\ [][Next]_vars

(***************************************************************************)
(* Properties of the unified engine, checked under Spec.                   *)
(***************************************************************************)
\* The i-th start_send_frame call was a Close, and was accepted.
CloseAccepted(i) == sends[i].opcode = "Close" /\ sends[i].err = ""

\* C1: once start_send_frame has accepted a Close frame (from write_frame or as
\* an automatic reply), `closed` is true in every later state, flushed or not;
\* every later send of a non-Close frame returns ConnectionClosed, and every
\* later Close frame is accepted.
C1_CloseLatch ==
  /\ (\E i \in 1..Len(sends) : CloseAccepted(i)) => write_half.closed
  /\ \A i, j \in 1..Len(sends) :
       (i < j /\ CloseAccepted(i)) =>
         sends[j].err = (IF sends[j].opcode = "Close" THEN "" ELSE "ConnectionClosed")
  /\ (pc = "idle" /\ ret.op = "write_frame" /\ ret.err = "" /\ Len(sends) > 1) =>
       \/ sends[Len(sends)].opcode = "Close"
       \/ \A i \in 1..(Len(sends) - 1) : ~CloseAccepted(i)

\* An automatic Close reply was accepted and is not yet flushed; write_frame of
\* a Text frame has then returned ConnectionClosed.
C1_Witness ==
  /\ Len(sends) = 2
  /\ CloseAccepted(1) /\ sends[1].auto
  /\ sends[2] = [opcode |-> "Text", err |-> "ConnectionClosed", auto |-> FALSE]
  /\ pc = "idle" /\ ret.op = "write_frame" /\ ret.err = "ConnectionClosed"
  /\ write_half.closed
  /\ write_half.buffer # << >>

\* C2: in the unified engine, a reply the read half obligates while the write
\* half is not closed is enqueued and completely flushed (write buffer empty,
\* all accepted bytes taken by the stream) before the read_frame call that
\* triggered it returns a frame or a protocol error, whatever pattern of Pending
\* the stream's write and flush follow.
C2_ReplyFlushedBeforeReturn ==
  (pc = "idle" /\ ret.op = "read_frame" /\ ret.err # "UnexpectedEOF" /\ owed) =>
    (write_half.buffer = << >> /\ sent = accepted)

\* The application payload of a peer frame: what a decoder of RFC 6455 gets.
AppPayload(pf) ==
  IF pf.mask = None THEN pf.payload ELSE apply_mask(pf.payload, pf.mask[1])

\* The last frame split off the read buffer, as the peer sent it.
LastPeer == peer[Len(yielded)]

LastOpcode == IF Len(yielded) = 0 THEN "" ELSE yielded[Len(yielded)].opcode

\* C3: with auto_pong = true, a received Ping (payload <= 125 bytes) makes the
\* read half return Ok(None) with an obligated Pong whose payload is the Ping's
\* payload; read_frame never returns a Ping to the application: it returns a
\* frame only once a frame that is not a Ping has been read.
C3_AutoPong ==
  /\ (LastOpcode = "Ping" /\ read_half.auto_pong /\ Len(AppPayload(LastPeer)) <= 125) =>
       /\ locals.of = Len(yielded)
       /\ locals.inner = Inner("", None, Some(Frame(TRUE, "Pong", None, AppPayload(LastPeer))))
       /\ ~(pc = "idle" /\ ret.op = "read_frame" /\ ret.err = "")
  /\ (ret.op = "read_frame" /\ ret.frame # None) => ret.frame[1].opcode # "Ping"
  /\ (pc = "idle" /\ ret.op = "read_frame" /\ ret.err = "") =>
       /\ ret.frame # None
       /\ ret.of = Len(yielded)
       /\ ret.frame[1].payload = AppPayload(LastPeer)

\* read_frame has returned the Text frame that followed a Ping, and the Pong
\* with the Ping's payload has been enqueued in between.
C3_Witness ==
  /\ Len(yielded) = 2
  /\ yielded[1].opcode = "Ping" /\ yielded[2].opcode = "Text"
  /\ pc = "idle" /\ ret.op = "read_frame" /\ ret.err = ""
  /\ ret.frame[1].opcode = "Text"
  /\ Len(sends) = 1 /\ sends[1] = [opcode |-> "Pong", err |-> "", auto |-> TRUE]
  /\ accepted = RefBytes(outgoing(write_half, pong(AppPayload(peer[1])), << 1, 2, 3, 4 >>))

\* The payload is one a Close may be echoed for: empty, or an allowed code
\* followed by a reason that is UTF-8.
Echoable(payload) ==
  \/ payload = << >>
  \/ /\ Len(payload) >= 2
     /\ LET code == 256 * payload[1] + payload[2]
        IN  \/ code \in 1000..1011 \ {1004, 1005, 1006}
            \/ code \in 3000..4999
     /\ SubSeq(payload, 3, Len(payload)) \in {<< >>, << 97 >>, << 195, 169 >>}

\* C4: with auto_close = true, a received Close whose payload is empty, or is
\* >= 2 bytes with an allowed code and a UTF-8 reason, is returned as
\* Ok(Some(Close)) with an obligated Close whose payload is byte for byte the
\* peer's; when read_frame returns that Close, is_closed() is true.
C4_CloseEcho ==
  /\ (LastOpcode = "Close" /\ read_half.auto_close /\ Echoable(AppPayload(LastPeer))) =>
       /\ locals.of = Len(yielded)
       /\ locals.inner.err = ""
       /\ locals.inner.frame # None
       /\ locals.inner.frame[1].opcode = "Close"
       /\ locals.inner.frame[1].payload = AppPayload(LastPeer)
       /\ locals.inner.obligated = Some(Frame(TRUE, "Close", None, AppPayload(LastPeer)))
  /\ (pc = "idle" /\ ret.op = "read_frame" /\ ret.err = "" /\ ret.frame[1].opcode = "Close") =>
       /\ write_half.closed
       /\ Echoable(ret.frame[1].payload)

\* read_frame has returned the peer's Close with code 1000; the write half was
\* open, the echo is the one frame sent, and the write half is now closed.
C4_Witness ==
  /\ pc = "idle" /\ ret.op = "read_frame" /\ ret.err = ""
  /\ ret.frame[1].opcode = "Close" /\ ret.frame[1].payload = << 3, 232 >>
  /\ ~locals.is_closed
  /\ Len(sends) = 1 /\ sends[1] = [opcode |-> "Close", err |-> "", auto |-> TRUE]
  /\ write_half.closed
  /\ sent = accepted /\ sent # << >>

\* C6: after any sequence of start_send_frame and poll_flush calls, flushes
\* that returned Pending after a partial write and were abandoned or polled
\* again included, the bytes the stream has accepted followed by the bytes
\* still in the write buffer are the serialized accepted frames in submission
\* order: no byte is written twice, dropped or reordered.
C6_WriteOrder == sent \o write_half.buffer = accepted

\* A reply was partly written when its flush returned Pending and read_frame
\* was dropped; write_frame then added a second frame behind the unwritten rest.
C6_Witness ==
  /\ Len(sends) = 2 /\ sends[1].auto /\ ~sends[2].auto
  /\ sends[1].err = "" /\ sends[2].err = ""
  /\ pc = "write"
  /\ sent # << >>
  /\ Len(sent) < Len(RefBytes(outgoing(write_half, locals.inner.obligated[1], << 1, 2, 3, 4 >>)))
  /\ Len(write_half.buffer) > Len(RefBytes(outgoing(write_half, Frame(TRUE, "Text", None, << 97 >>), << 1, 2, 3, 4 >>)))

\* The stream accepts 0 bytes of a non-empty buffer.
ZeroWrite == [flush |-> "Ok", write |-> "Ok", n |-> 0]

\* C7: poll_flush returns Ready(Ok) only with the write buffer empty, and
\* returns ConnectionClosed whenever the stream accepts 0 bytes of a non-empty
\* buffer, the unwritten bytes staying in the buffer.
C7_FlushContract ==
  [][/\ (pc = "write" /\ pc' = "idle" /\ ret'.op = "write_frame") =>
          write_half'.buffer = << >>
     /\ (pc = "read_flush" /\ pc' \in {"read", "idle"}) => write_half'.buffer = << >>
     /\ (pc \in {"write", "read_flush"} /\ write_half.buffer # << >>
           /\ (WriteFlush(ZeroWrite) \/ ReadFlush(ZeroWrite))) =>
          /\ pc' = "failed"
          /\ ret'.err = "ConnectionClosed"
          /\ write_half'.buffer = write_half.buffer
          /\ sent' = sent
     /\ (pc \in {"write", "read_flush"} /\ write_half.buffer # << >>) =>
          ENABLED (WriteFlush(ZeroWrite) \/ ReadFlush(ZeroWrite))]_vars

\* write_frame has failed with ConnectionClosed on a write of 0 bytes that
\* followed a partial write: the rest of the frame is still in the buffer.
C7_Witness ==
  /\ pc = "failed" /\ ret.op = "write_frame" /\ ret.err = "ConnectionClosed"
  /\ sent # << >>
  /\ write_half.buffer # << >>

(***************************************************************************)
(* The read half on its own (as WebSocketRead drives it): read_frame_inner *)
(* called again and again, the stream delivering the peer's bytes in       *)
(* chunks of any size, under every setting of the read half's options.     *)
(***************************************************************************)
\* A max_message_size small enough for the peer's frames to reach it.
SmallMaxMessageSize == 2

set_max_message_size(max_message_size) ==
  /\ Fresh
  /\ read_half' = [read_half EXCEPT !.max_message_size = max_message_size]
  /\ UNCHANGED << write_half, wire, sent, pc, locals, ret, peer, calls, yielded, accepted,
                  sends, owed >>

\* Frames a conforming or permissive peer may send, in all three length
\* encodings, masked and not, final and not.
ValidFrames ==
  {WellFormed(TRUE, "Text", FALSE, << 97 >>),
   WellFormed(TRUE, "Text", TRUE, << 195, 169 >>),
   WellFormed(FALSE, "Text", TRUE, << 97 >>),
   PeerFrame(TRUE, 0, 2, None, 2, 1, << 7 >>),
   PeerFrame(TRUE, 0, 2, Some(MaskKey), 8, 2, << 7, 8 >>),
   WellFormed(TRUE, "Ping", TRUE, << 97 >>),
   WellFormed(TRUE, "Close", TRUE, << 3, 232, 97 >>)}

\* Frames sent on their own: payloads that need the 16-bit length (126
\* bytes), in a data frame and in a control frame, the opcodes ValidFrames
\* leaves out, and Text frames, final and not, whose payload is not UTF-8.
LoneFrames ==
  {PeerFrame(TRUE, 0, 2, None, 2, 126, [i \in 1..126 |-> i]),
   PeerFrame(TRUE, 0, 10, None, 2, 126, [i \in 1..126 |-> 0]),
   WellFormed(TRUE, "Continuation", FALSE, << 97 >>),
   WellFormed(TRUE, "Pong", TRUE, << >>),
   WellFormed(TRUE, "Text", FALSE, << 255 >>),
   WellFormed(TRUE, "Text", TRUE, << 195 >>),
   WellFormed(FALSE, "Text", FALSE, << 255 >>),
   WellFormed(FALSE, "Text", TRUE, << 195 >>)}

\* The shapes the rest of a header takes in the malformed frames: mask, width of
\* the extended length, declared length, payload bytes that follow.
Shapes ==
  {[mask |-> None, extra |-> 0, len |-> 0, payload |-> << >>],
   [mask |-> None, extra |-> 0, len |-> 1, payload |-> << 97 >>],
   [mask |-> Some(MaskKey), extra |-> 0, len |-> 125, payload |-> << 97 >>],
   [mask |-> Some(MaskKey), extra |-> 2, len |-> 200, payload |-> << >>],
   [mask |-> None, extra |-> 8, len |-> DefaultMaxMessageSize, payload |-> << >>]}

Shaped(fin, rsv, nibble, sh) ==
  PeerFrame(fin, rsv, nibble, sh.mask, sh.extra, sh.len, sh.payload)

\* Every first byte with a reserved bit set, over every shape.
RsvFrames ==
  {Shaped(fin, rsv, nibble, sh) :
     fin \in BOOLEAN, rsv \in 1..7, nibble \in 0..15, sh \in Shapes}

\* Every non-final control frame, and the final ones beside them, over every shape.
ControlFrames ==
  {Shaped(fin, 0, nibble, sh) : fin \in BOOLEAN, nibble \in {8, 9, 10}, sh \in Shapes}

\* Close codes on and around every boundary of the classification.
CloseCodes ==
  {0, 999, 1000, 1003, 1004, 1005, 1006, 1007, 1011, 1012, 2999, 3000, 3999, 4000,
   4999, 5000, 65535}

\* Reasons: none, ASCII, two-byte UTF-8, and bytes that are not UTF-8.
Reasons == {<< >>, << 97 >>, << 195, 169 >>, << 255 >>, << 195 >>}

CloseFrames ==
  {WellFormed(TRUE, "Close", masked, ToBigEndian(code, 2) \o reason) :
     masked \in BOOLEAN, code \in CloseCodes, reason \in Reasons}
  \cup {WellFormed(TRUE, "Close", masked, p) : masked \in BOOLEAN, p \in {<< >>, << 3 >>}}

\* What the peer sends to the read half: valid frames one after the other, or a
\* single frame of the other families, alone or after a valid frame.
ReadInputs ==
  SeqsUpTo(ValidFrames, MaxFrames)
  \cup {<< f >> : f \in LoneFrames \cup RsvFrames \cup ControlFrames \cup CloseFrames}
  \cup {<< WellFormed(TRUE, "Text", FALSE, << 97 >>), f >> :
          f \in ControlFrames \cup {Shaped(TRUE, rsv, 1, sh) : rsv \in {1, 2, 4}, sh \in Shapes}}

InitRead ==
  \E role \in Roles : \E frames \in ReadInputs : after_handshake(role, frames)

NextRead ==
  \/ \E b \in BOOLEAN : set_auto_close(b)
  \/ \E b \in BOOLEAN : set_auto_pong(b)
  \/ \E n \in {SmallMaxMessageSize, DefaultMaxMessageSize} : set_max_message_size(n)
  \/ read_frame_inner
  \/ \E k \in 1..Len(wire) : ReadNext(k)
  \/ ReadEof
  \/ ReadIoError
  \/ InnerReady
  \/ Cancel

SpecRead == InitRead /\ [][NextRead]_vars

(***************************************************************************)
(* Properties of the read half, checked under SpecRead.                    *)
(***************************************************************************)
\* The peer's frames not yet split off the read buffer.
Unread == SubSeq(peer, Len(yielded) + 1, Len(peer))

HasHead == Len(yielded) < Len(peer)

HeadFrame == peer[Len(yielded) + 1]

\* read_frame_inner has returned (a frame, an error or end of stream).
Returned == pc = "idle" /\ ret.op = "read_frame_inner"

\* The length of the peer frame's header on the wire (RFC 6455 section 5.2).
HeaderBytes(pf) == 2 + pf.extra + (IF pf.mask = None THEN 0 ELSE 4)

\* A frame the parser has to accept: reserved bits zero, a known opcode, all
\* its payload on the wire, a control frame final and at most 125 bytes, and
\* the payload shorter than max_message_size.
Acceptable(pf) ==
  /\ pf.rsv = 0
  /\ pf.nibble \in {0, 1, 2, 8, 9, 10}
  /\ pf.len = Len(pf.payload)
  /\ pf.nibble \in {8, 9, 10} => (pf.fin /\ pf.len <= 125)
  /\ pf.len < read_half.max_message_size

\* C5, as claimed: for every close code that is not allowed (0..999, 1004,
\* 1005, 1006, 1012..2999, 5000 and above), an incoming Close frame carrying
\* that code yields InvalidCloseCode and an automatic reply Close with code
\* 1002, for every reason payload that follows the code.
Disallowed(code) ==
  \/ code \in 0..999
  \/ code \in {1004, 1005, 1006}
  \/ code \in 1012..2999
  \/ code >= 5000

\* read_frame_inner, with auto_close on, has returned for a Close frame whose
\* payload, as the read half holds it, starts with a code that is not allowed.
PolicedClose ==
  /\ Returned /\ ret.of > 0
  /\ read_half.auto_close
  /\ LET pf == peer[ret.of]
     IN  /\ pf.nibble = 8
         /\ pf.mask = None \/ read_half.role = "Server"
         /\ Len(AppPayload(pf)) >= 2
         /\ Disallowed(256 * AppPayload(pf)[1] + AppPayload(pf)[2])

PolicedReason == SubSeq(AppPayload(peer[ret.of]), 3, Len(AppPayload(peer[ret.of])))

C5_EveryReason ==
  PolicedClose =>
    /\ ret.err = "InvalidCloseCode"
    /\ ret.obligated # None
    /\ ret.obligated[1].opcode = "Close"
    /\ SubSeq(ret.obligated[1].payload, 1, 2) = << 3, 234 >>

\* C5: for every close code that is not allowed, an incoming Close frame
\* carrying that code, followed by a reason that is UTF-8, yields
\* InvalidCloseCode and an automatic reply Close with code 1002 and that
\* reason; followed by bytes that are not UTF-8 it yields InvalidUTF8 and no
\* reply.
C5_Utf8Reason ==
  PolicedClose =>
    IF PolicedReason \in {<< >>, << 97 >>, << 195, 169 >>}
      THEN /\ ret.err = "InvalidCloseCode"
           /\ ret.frame = None
           /\ ret.obligated = Some(Frame(TRUE, "Close", None, << 3, 234 >> \o PolicedReason))
      ELSE /\ ret.err = "InvalidUTF8"
           /\ ret.frame = None
           /\ ret.obligated = None

\* A Close with code 1005 and the reason "a" has been answered with
\* InvalidCloseCode and the reply 1002 "a".
C5_Witness ==
  /\ PolicedClose
  /\ AppPayload(peer[ret.of]) = << 3, 237, 97 >>
  /\ ret.err = "InvalidCloseCode"
  /\ ret.obligated = Some(Frame(TRUE, "Close", None, << 3, 234, 97 >>))

\* C8: for every acceptable frame or sequence of them, and every partition of
\* their bytes into chunks of one byte or more, the read half yields the
\* frames the peer sent, in wire order, with no spurious error; bytes leave the
\* read buffer only as complete frames (header and payload), and the bytes
\* read beyond a frame stay buffered for the next parse.
C8_ShortReads ==
  /\ Len(yielded) <= Len(peer)
  /\ \A i \in 1..Len(yielded) : yielded[i] = Decoded(peer[i])
  /\ read_half.buffer \o wire = Flatten(Unread)
  /\ (Returned /\ ret.of = 0) => /\ ret.err # ""
                                 /\ HasHead => ~Acceptable(HeadFrame)
  /\ (Returned /\ ret.of > 0) =>
       /\ ret.of = Len(yielded)
       /\ [err |-> ret.err, frame |-> ret.frame, obligated |-> ret.obligated]
            = poll_read_frame_inner(read_half, Decoded(peer[ret.of]))

\* The first frame has been returned after a read that went past its end: the
\* start of the second frame, short of its 14-byte header, waits in the buffer.
C8_Witness ==
  /\ Returned /\ ret.of = 1 /\ ret.err = ""
  /\ Len(peer) = 2 /\ peer[2].extra = 8
  /\ Len(read_half.buffer) \in 1..13
  /\ wire # << >>

HeadRsv == HasHead /\ HeadFrame.rsv # 0

\* C9: an input whose first frame byte has RSV1, RSV2 or RSV3 set yields
\* ReservedBitsNotZero on every call, whatever opcode nibble, mask bit, length
\* code and bytes follow; the error comes once two bytes are buffered, with no
\* further read, and takes nothing off the buffer.
C9_RsvRejected ==
  /\ \A i \in 1..Len(yielded) : peer[i].rsv = 0
  /\ HeadRsv =>
       /\ read_half.buffer \o wire = Flatten(Unread)
       /\ (pc = "inner" /\ Len(read_half.buffer) >= 2) =>
            (~AtReadNext /\ ParseNow = ParseErr("ReservedBitsNotZero"))
       /\ (Returned /\ ret.of = 0) =>
            ret = [NoRet EXCEPT !.op = "read_frame_inner", !.err = "ReservedBitsNotZero"]

\* ReservedBitsNotZero has been returned for a masked frame with RSV2 alone
\* set, an unknown opcode and a 16-bit length, with only its first two bytes
\* read.
C9_Witness ==
  /\ HeadRsv /\ HeadFrame.rsv = 2 /\ HeadFrame.nibble = 3 /\ HeadFrame.extra = 2 /\ HeadFrame.mask # None
  /\ Returned /\ ret.err = "ReservedBitsNotZero"
  /\ Len(read_half.buffer) = 2
  /\ wire # << >>

HeadFragmentedControl ==
  HasHead /\ HeadFrame.rsv = 0 /\ HeadFrame.nibble \in {8, 9, 10} /\ ~HeadFrame.fin

\* C10: a control frame (Close, Ping or Pong) with fin = 0 yields
\* ControlFrameFragmented, for every payload length (a Ping over 125 bytes and a
\* length at or above max_message_size included) and every setting of
\* auto_close and auto_pong; it is never returned and obligates no reply.
C10_ControlFin ==
  /\ \A i \in 1..Len(yielded) : peer[i].nibble \in {8, 9, 10} => peer[i].fin
  /\ HeadFragmentedControl =>
       /\ (pc = "inner" /\ Len(read_half.buffer) >= HeaderBytes(HeadFrame)) => ~AtReadNext
       /\ (Returned /\ ret.of = 0) =>
            ret = [NoRet EXCEPT !.op = "read_frame_inner", !.err = "ControlFrameFragmented"]

\* ControlFrameFragmented has been returned for a non-final Ping that declares
\* 200 bytes, with auto_pong off.
C10_Witness ==
  /\ HeadFragmentedControl /\ HeadFrame.nibble = 9 /\ HeadFrame.len = 200
  /\ ~read_half.auto_pong
  /\ Returned /\ ret.err = "ControlFrameFragmented" /\ ret.obligated = None

\* C11: every frame with a control opcode (Close, Ping, Pong) that the read
\* half returns, and every reply it obligates, has fin = true and at most 125
\* bytes of payload; a received Close or Pong that declares more than 125 bytes
\* is not accepted.
C11_ControlSize ==
  /\ (Returned /\ ret.frame # None /\ ret.frame[1].opcode \in {"Close", "Ping", "Pong"}) =>
       (ret.frame[1].fin /\ Len(ret.frame[1].payload) <= 125)
  /\ (Returned /\ ret.obligated # None) =>
       (ret.obligated[1].fin /\ Len(ret.obligated[1].payload) <= 125)
  /\ \A i \in 1..Len(yielded) : peer[i].nibble \in {8, 10} => peer[i].len <= 125

\* The head frame declares max_message_size bytes or more.
HeadOverLimit == HasHead /\ HeadFrame.len >= read_half.max_message_size

PassesEarlierChecks(pf) ==
  /\ pf.rsv = 0
  /\ pf.nibble \in {0, 1, 2, 8, 9, 10}
  /\ pf.nibble \in {8, 9, 10} => pf.fin
  /\ pf.nibble = 9 => pf.len <= 125

set_auto_apply_mask(auto_apply_mask) ==
  /\ Fresh
  /\ read_half' = [read_half EXCEPT !.auto_apply_mask = auto_apply_mask]
  /\ write_half' = [write_half EXCEPT !.auto_apply_mask = auto_apply_mask]
  /\ UNCHANGED << wire, sent, pc, locals, ret, peer, calls, yielded, accepted, sends, owed >>

\* The frames the application writes: built by Frame::text, Frame::binary and
\* Frame::close (no mask), or by Frame::new with a mask of its own.
WriteFrames ==
  SendFrames
  \cup {Frame(TRUE, "Binary", None, << >>),
        Frame(TRUE, "Text", Some(MaskKey), << 97 >>),
        Frame(FALSE, "Binary", Some(<< 0, 0, 0, 0 >>), << 7, 8 >>)}

\* The keys rand::random may return: any four bytes.
WriteKeys == RandomKeys \cup {<< 0, 0, 0, 0 >>}

InitWrite == \E role \in Roles : after_handshake(role, << >>)

NextWrite ==
  \/ \E b \in BOOLEAN : set_auto_apply_mask(b)
  \/ \E frame \in WriteFrames, key \in WriteKeys : write_frame(frame, key)
  \/ \E io \in StreamAnswers(write_half.buffer) : WriteFlush(io)
  \/ Cancel

SpecWrite == InitWrite /\ [][NextWrite]_vars

\* The MASK bit and the key of each frame in a stream of frames with payloads
\* of at most 125 bytes (RFC 6455 section 5.2).
RECURSIVE WireMasks(_)
WireMasks(bytes) ==
  IF Len(bytes) < 2 THEN << >>
  ELSE LET masked == bytes[2] >= 128
           size == 2 + (IF masked THEN 4 ELSE 0) + (bytes[2] % 128)
       IN  << [masked |-> masked,
               key |-> IF masked THEN SubSeq(bytes, 3, 6) ELSE << >>] >>
           \o WireMasks(SubSeq(bytes, size + 1, Len(bytes)))

\* C13: every frame a Client-role write half serializes carries MASK = 1 and
\* a key that is not zero, and every frame a Server-role write half serializes
\* carries no mask, whatever frame is passed to write_frame (one with its mask
\* field set included) and whatever auto_apply_mask is.
C13_MaskDirection ==
  \A m \in {WireMasks(sent \o write_half.buffer)[i] :
               i \in 1..Len(WireMasks(sent \o write_half.buffer))} :
    IF write_half.role = "Client" THEN m.masked /\ m.key # << 0, 0, 0, 0 >>
    ELSE ~m.masked

\* C14: in either role, a frame that arrives with the MASK bit set is returned
\* with its payload unmasked (XORed with the received key) and its mask
\* cleared, and the close-code, UTF-8 and auto-pong processing see the unmasked
\* payload: the read half answers as it does for the same frame sent unmasked.
C14_UnmaskOnRead ==
  (Returned /\ ret.of > 0 /\ peer[ret.of].mask # None) =>
    LET pf == peer[ret.of]
        clear == Frame(pf.fin, OpCodeTryFrom(pf.nibble), None, AppPayload(pf))
    IN  /\ ret.frame # None =>
             (ret.frame[1].payload = AppPayload(pf) /\ ret.frame[1].mask = None)
        /\ [err |-> ret.err, frame |-> ret.frame, obligated |-> ret.obligated]
             = poll_read_frame_inner(read_half, clear)

\* The read half has returned a Text frame to its caller.
TextReturned == Returned /\ ret.frame # None /\ ret.frame[1].opcode = "Text"

HeldPayload(pf) ==
  IF pf.mask # None /\ read_half.role = "Server" /\ read_half.auto_apply_mask
    THEN AppPayload(pf)
  ELSE pf.payload

\* The payloads of the peer's Text frames that are UTF-8: none, "a", "V" and
\* U+00E9.
Utf8Payloads == {<< >>, << 97 >>, << 86 >>, << 195, 169 >>}

DuplexFrames(role) ==
  IF role = "Server"
    THEN {WellFormed(TRUE, opcode, TRUE, << 97 >>) :
            opcode \in {"Continuation", "Text", "Binary", "Ping", "Pong"}}
         \cup {WellFormed(TRUE, "Close", TRUE, p) :
                 p \in {<< >>, << 3, 232 >>, << 3, 231 >>, << 3 >>, << 3, 232, 255 >>}}
  ELSE {WellFormed(TRUE, opcode, FALSE, << 97 >>) : opcode \in {"Text", "Ping"}}
       \cup {WellFormed(TRUE, "Close", FALSE, p) : p \in {<< >>, << 3, 231 >>}}

DuplexInputs(role) ==
  {<< f >> : f \in DuplexFrames(role)}
  \cup {<< f, g >> : f \in DuplexFrames(role), g \in DuplexFrames(role)}

InitDuplex ==
  \E role \in Roles : \E frames \in DuplexInputs(role) : after_handshake(role, frames)

NextDuplex ==
  \/ \E b \in BOOLEAN : set_auto_close(b)
  \/ \E b \in BOOLEAN : set_auto_pong(b)
  \/ read_frame
  \/ \E k \in FrameChunks : ReadNext(k)
  \/ ReadEof
  \/ ReadIoError
  \/ ReadReady
  \/ \E io \in StreamAnswers(write_half.buffer) : ReadFlush(io)
  \/ Repoll
  \/ \E frame \in SendFrames, key \in RandomKeys : write_frame(frame, key)
  \/ \E io \in StreamAnswers(write_half.buffer) : WriteFlush(io)
  \/ Cancel

SpecDuplex == InitDuplex /\ [][NextDuplex]_vars

\* This step of read_frame splits a frame off the read buffer with the write
\* half already closed.
ReadWhileClosed == pc = "read" /\ write_half.closed /\ Len(yielded') = Len(yielded) + 1

\* The frame that step splits off, as the peer sent it.
FrameRead == peer[Len(yielded) + 1]

\* C17: when the write half is already closed as a frame is read, read_frame
\* returns ConnectionClosed for every frame other than Close that it would
\* surface (Text, Binary, Continuation, Pong, and Ping with auto_pong off), and
\* still returns a peer Close as Ok(Close): the peer's Close can be drained
\* after the application has sent its own.
C17_ReadsAfterClose ==
  [][ReadWhileClosed =>
       LET opcode == OpCodeTryFrom(FrameRead.nibble)
       IN  /\ (opcode \in {"Text", "Binary", "Continuation", "Pong"}
                 \/ (opcode = "Ping" /\ ~read_half.auto_pong)) =>
                /\ pc' = "idle"
                /\ ret' = [NoRet EXCEPT !.op = "read_frame", !.err = "ConnectionClosed",
                                        !.of = Len(yielded')]
           /\ (opcode = "Close" /\ (~read_half.auto_close \/ Echoable(AppPayload(FrameRead)))) =>
                /\ pc' = "idle"
                /\ ret'.op = "read_frame" /\ ret'.err = ""
                /\ ret'.frame # None
                /\ ret'.frame[1].opcode = "Close"
                /\ ret'.frame[1].payload = AppPayload(FrameRead)]_vars

\* The application has sent its Close; read_frame has then answered
\* ConnectionClosed to the peer's Pong and returned the peer's Close that
\* followed it.
C17_Witness ==
  /\ Len(sends) = 1 /\ sends[1] = [opcode |-> "Close", err |-> "", auto |-> FALSE]
  /\ Len(yielded) = 2
  /\ yielded[1].opcode = "Pong" /\ yielded[2].opcode = "Close"
  /\ pc = "idle" /\ ret.op = "read_frame" /\ ret.err = "" /\ ret.of = 2
  /\ ret.frame[1].opcode = "Close"
  /\ write_half.closed

\* C18: in the unified engine, with the write half already closed, the reply a
\* read obligates (Pong, Close echo, Close 1002) is dropped in silence: the
\* read leaves the write buffer, the bytes the stream has accepted and `closed`
\* as they are, starts no flush, and ends as the read half's own result says
\* (the loop reads on after a Ping, the Close is returned, InvalidCloseCode is
\* reported), with no error for the drop.
C18_BestEffortReplies ==
  [][ReadWhileClosed =>
       LET opcode == OpCodeTryFrom(FrameRead.nibble)
           payload == AppPayload(FrameRead)
       IN  /\ write_half' = write_half
           /\ sent' = sent
           /\ sends' = sends
           /\ pc' \in {"read", "idle"}
           /\ (opcode = "Ping" /\ read_half.auto_pong) =>
                (pc' = "read" /\ ret' = ret /\ locals'.inner.obligated = Some(pong(payload)))
           /\ (opcode = "Close" /\ read_half.auto_close /\ Echoable(payload)) =>
                /\ pc' = "idle" /\ ret'.err = ""
                /\ ret'.obligated = Some(close_raw(payload))
           /\ (opcode = "Close" /\ read_half.auto_close /\ payload = << 3, 231 >>) =>
                /\ pc' = "idle" /\ ret'.err = "InvalidCloseCode"
                /\ ret'.obligated = Some(close(1002, << >>))]_vars

\* The application has sent its Close; read_frame has then read the peer's
\* Ping and its Close with code 999: it reports InvalidCloseCode, and the
\* application's Close is all the write half has ever been given.
C18_Witness ==
  /\ Len(sends) = 1 /\ sends[1] = [opcode |-> "Close", err |-> "", auto |-> FALSE]
  /\ Len(yielded) = 2
  /\ yielded[1].opcode = "Ping" /\ yielded[2].opcode = "Close"
  /\ read_half.auto_pong
  /\ pc = "idle" /\ ret.op = "read_frame" /\ ret.err = "InvalidCloseCode" /\ ret.of = 2
  /\ ret.obligated # None
  /\ sent \o write_half.buffer = << 136, 0 >>

\* This step of read_frame splits a frame off the read buffer.
ReadsFrame == pc = "read" /\ Len(yielded') = Len(yielded) + 1

\* The automation the options have switched off for the frame being read.
Unautomated ==
  \/ FrameRead.nibble = 8 /\ ~read_half.auto_close
  \/ FrameRead.nibble = 9 /\ ~read_half.auto_pong

\* C19: with auto_close = false every received Close (one byte of payload, a
\* code that is not allowed or a reason that is not UTF-8 included), and with
\* auto_pong = false every received Ping, is the read half's result as it was
\* received, Ok(Some(frame)), with no obligated reply and no error; the read
\* leaves the write half, the bytes on the stream and the sends as they are,
\* and read_frame returns that frame when the write half is not closed.
C19_DisabledAutomation ==
  [][(ReadsFrame /\ Unautomated) =>
       /\ locals'.inner.err = ""
       /\ locals'.inner.obligated = None
       /\ locals'.inner.frame # None
       /\ locals'.inner.frame[1].opcode = OpCodeTryFrom(FrameRead.nibble)
       /\ locals'.inner.frame[1].fin = FrameRead.fin
       /\ locals'.inner.frame[1].payload = HeldPayload(FrameRead)
       /\ write_half' = write_half
       /\ sent' = sent
       /\ sends' = sends
       /\ accepted' = accepted
       /\ pc' = "idle"
       /\ ret'.obligated = None
       /\ (~write_half.closed \/ FrameRead.nibble = 8) =>
            (ret'.err = "" /\ ret'.frame = locals'.inner.frame)]_vars

\* With both automations off read_frame has returned the peer's Ping and then
\* its Close of one byte, and nothing has been given to the write half.
C19_Witness ==
  /\ ~read_half.auto_close /\ ~read_half.auto_pong
  /\ Len(yielded) = 2
  /\ yielded[1].opcode = "Ping" /\ yielded[2].opcode = "Close"
  /\ AppPayload(peer[2]) = << 3 >>
  /\ pc = "idle" /\ ret.op = "read_frame" /\ ret.err = "" /\ ret.of = 2
  /\ ret.frame # None /\ ret.frame[1].opcode = "Close" /\ ret.frame[1].payload = << 3 >>
  /\ ret.obligated = None
  /\ sends = << >> /\ sent = << >> /\ write_half.buffer = << >> /\ ~write_half.closed

(***************************************************************************)
(* The split pair of after_handshake_split: WebSocketRead::read_frame      *)
(* hands every obligated reply to the caller's send_fn; the paired         *)
(* WebSocketWrite is written by the application alone.                     *)
(***************************************************************************)
\* A read_frame that does not look at what send_fn returned.
split_result_unchecked(l, sent_ok) ==
  IF l.inner.err # "" THEN [loop |-> FALSE, err |-> l.inner.err, frame |-> None]
  ELSE IF l.inner.frame = None THEN [loop |-> TRUE, err |-> "", frame |-> None]
  ELSE [loop |-> FALSE, err |-> "", frame |-> l.inner.frame]

\* lib.rs:299-304: what a turn of WebSocketRead::read_frame's loop ends in, for
\* the values l of (res, obligated_send) and the result of send_fn (TRUE when
\* there was nothing to send): SendError, `res?`, the frame, or another turn.
split_result(l, sent_ok) ==
  IF ~sent_ok THEN [loop |-> FALSE, err |-> "SendError", frame |-> None]
  ELSE IF l.inner.err # "" THEN [loop |-> FALSE, err |-> l.inner.err, frame |-> None]
  ELSE IF l.inner.frame = None THEN [loop |-> TRUE, err |-> "", frame |-> None]
  ELSE [loop |-> FALSE, err |-> "", frame |-> l.inner.frame]

\* The end of a turn of the loop.
SplitDeliver(l, sent_ok) ==
  LET r == split_result(l, sent_ok)
  IN  IF r.loop THEN pc' = "split" /\ ret' = ret
      ELSE Return("WebSocketRead::read_frame", r.err, r.frame, l.inner.obligated, l.of)

\* WebSocketRead::read_frame(send_fn) is called.
split_read_frame ==
  /\ pc = "idle"
  /\ pc' = "split"
  /\ ret' = NoRet
  /\ UNCHANGED << read_half, write_half, wire, sent, locals, peer, calls, yielded,
                  accepted, sends, owed >>

\* lib.rs:296-298: read_frame_inner has an answer; an obligated reply is given
\* to send_fn.  The read half has no `closed` flag to look at: is_closed stays
\* FALSE in `locals`.
SplitReady ==
  /\ pc = "split"
  /\ LET p == ParseNow
         l == [inner |-> poll_read_frame_inner(read_half, p.frame),
               is_closed |-> FALSE, of |-> Len(yielded) + 1]
     IN  /\ p.kind # "NeedRead"
         /\ IF p.kind = "Err"
              THEN /\ Return("WebSocketRead::read_frame", p.err, None, None, 0)
                   /\ UNCHANGED << read_half, locals, yielded, calls >>
              ELSE /\ read_half' = [read_half EXCEPT !.buffer = Drop(@, p.size)]
                   /\ yielded' = Append(yielded, p.frame)
                   /\ locals' = l
                   /\ IF l.inner.obligated # None
                        THEN /\ calls' = Append(calls, [frame |-> l.inner.obligated[1],
                                                        of |-> l.of, result |-> ""])
                             /\ pc' = "split_send"
                             /\ ret' = ret
                        ELSE /\ SplitDeliver(l, TRUE)
                             /\ calls' = calls
  /\ UNCHANGED << write_half, wire, sent, peer, accepted, sends, owed >>

\* lib.rs:298-299: send_fn(frame).await returns Ok or Err; what the caller's
\* closure does with the frame is its own affair.
SendFnReturns(sent_ok) ==
  /\ pc = "split_send"
  /\ calls' = [calls EXCEPT ![Len(calls)].result = IF sent_ok THEN "Ok" ELSE "Err"]
  /\ SplitDeliver(locals, sent_ok)
  /\ UNCHANGED << read_half, write_half, wire, sent, locals, peer, yielded, accepted,
                  sends, owed >>

InitSplit ==
  \E role \in Roles : \E frames \in DuplexInputs(role) : after_handshake(role, frames)

NextSplit ==
  \/ \E b \in BOOLEAN : set_auto_close(b)
  \/ \E b \in BOOLEAN : set_auto_pong(b)
  \/ split_read_frame
  \/ \E k \in FrameChunks : ReadNext(k)
  \/ ReadEof
  \/ ReadIoError
  \/ SplitReady
  \/ \E sent_ok \in BOOLEAN : SendFnReturns(sent_ok)
  \/ \E frame \in SendFrames, key \in RandomKeys : write_frame(frame, key)
  \/ \E io \in StreamAnswers(write_half.buffer) : WriteFlush(io)
  \/ Cancel

SpecSplit == InitSplit /\ [][NextSplit]_vars

(***************************************************************************)
(* Properties of the split read API, checked under SpecSplit.              *)
(***************************************************************************)
\* The reply RFC 6455 and the options oblige the read half to for the peer
\* frame pf: a Pong with the Ping's payload, the echo of a Close that may be
\* echoed, a Close with code 1002 and the reason received for a close code that
\* is not allowed; None for every other frame.
OwedReply(pf) ==
  LET payload == AppPayload(pf)
      reason == SubSeq(payload, 3, Len(payload))
  IN  IF pf.nibble = 9 /\ read_half.auto_pong
        THEN Some(Frame(TRUE, "Pong", None, payload))
      ELSE IF pf.nibble = 8 /\ read_half.auto_close /\ Echoable(payload)
        THEN Some(Frame(TRUE, "Close", None, payload))
      ELSE IF /\ pf.nibble = 8 /\ read_half.auto_close /\ Len(payload) >= 2
              /\ Disallowed(256 * payload[1] + payload[2])
              /\ reason \in {<< >>, << 97 >>, << 195, 169 >>}
        THEN Some(Frame(TRUE, "Close", None, << 3, 234 >> \o reason))
      ELSE None

\* WebSocketRead::read_frame has returned.
SplitReturned == pc = "idle" /\ ret.op = "WebSocketRead::read_frame"

\* C20: WebSocketRead::read_frame calls send_fn exactly once for every reply
\* the read half obliges, with that reply, in the order of the frames on the
\* wire and whether or not the paired write half has sent a Close; send_fn has
\* returned before read_frame returns the result of the frame that obliged the
\* reply (the frame, or an error such as InvalidCloseCode), and when send_fn
\* fails read_frame returns SendError in place of that result.
C20_SplitSendFn ==
  /\ \A i \in 1..Len(calls) :
       /\ calls[i].of \in 1..Len(yielded)
       /\ OwedReply(peer[calls[i].of]) = Some(calls[i].frame)
       /\ calls[i].result = "" => (i = Len(calls) /\ pc = "split_send")
  /\ \A i \in 1..Len(calls) : \A j \in 1..Len(calls) :
       i < j => calls[i].of < calls[j].of
  /\ \A n \in 1..Len(yielded) :
       OwedReply(peer[n]) # None => \E i \in 1..Len(calls) : calls[i].of = n
  /\ SplitReturned =>
       /\ \A i \in 1..Len(calls) : calls[i].result \in {"Ok", "Err"}
       /\ ret.err = "SendError" => (ret.of > 0 /\ OwedReply(peer[ret.of]) # None)
       /\ (ret.of > 0 /\ OwedReply(peer[ret.of]) # None) =>
            LET c == CHOOSE c \in {calls[i] : i \in 1..Len(calls)} : c.of = ret.of
            IN  /\ c.result = "Err" => (ret.err = "SendError" /\ ret.frame = None)
                /\ c.result = "Ok" =>
                     IF Echoable(AppPayload(peer[ret.of]))
                       THEN ret.err = "" /\ ret.frame # None
                                        /\ ret.frame[1].opcode = "Close"
                     ELSE ret.err = "InvalidCloseCode" /\ ret.frame = None

\* The application has sent its Close on the write half; read_frame has then
\* given send_fn the Pong for the peer's Ping and the Close 1002 for its Close
\* with code 999, and reports InvalidCloseCode.
C20_Witness ==
  /\ write_half.closed
  /\ Len(sends) = 1 /\ sends[1] = [opcode |-> "Close", err |-> "", auto |-> FALSE]
  /\ Len(calls) = 2
  /\ calls[1] = [frame |-> Frame(TRUE, "Pong", None, << 97 >>), of |-> 1, result |-> "Ok"]
  /\ calls[2] = [frame |-> Frame(TRUE, "Close", None, << 3, 234 >>), of |-> 2,
                 result |-> "Ok"]
  /\ SplitReturned /\ ret.err = "InvalidCloseCode" /\ ret.of = 2

(***************************************************************************)
(* The reply flush that suspends, checked under Spec.                      *)
(***************************************************************************)
\* This read_frame call has split a frame off, enqueued its reply, and is back
\* at the parser with the frame's result (a frame or an error) not delivered:
\* the flush of the reply returned Pending and the task was polled again.
ResultHeld ==
  /\ pc = "read" /\ owed
  /\ locals.of = Len(yielded)
  /\ locals.inner.frame # None \/ locals.inner.err # ""

\* C21: no frame or error is lost when the reply flush suspends.  When a frame
\* has been consumed and the flush of its obligated reply returned Pending, the
\* same read_frame call consumes no further frame before it has delivered that
\* frame's result, and what it returns is that result (the Close, or
\* InvalidCloseCode); and every frame consumed is, in the step that consumes
\* it, returned or reported as an error, or is an auto-answered Ping, or has
\* its reply in flight.
C21_NoFrameLost ==
  [][/\ ResultHeld =>
          /\ Len(yielded') = Len(yielded)
          /\ (pc' = "idle" /\ ret'.op = "read_frame") =>
               /\ ret'.of = locals.of
               /\ ret'.err = locals.inner.err
               /\ ret'.frame = locals.inner.frame
     /\ (pc = "read" /\ Len(yielded') = Len(yielded) + 1) =>
          \/ pc' = "idle" /\ ret'.op = "read_frame" /\ ret'.of = Len(yielded')
          \/ pc' = "read" /\ yielded'[Len(yielded')].opcode = "Ping"
          \/ pc' = "read_flush"]_vars

(***************************************************************************)
(* The rejected send, checked under Spec.                                  *)
(***************************************************************************)
\* This step is a start_send_frame call that returns ConnectionClosed.
SendRejected ==
  /\ Len(sends') = Len(sends) + 1
  /\ sends'[Len(sends')].err = "ConnectionClosed"

\* C22: a start_send_frame that returns ConnectionClosed (a frame that is not a
\* Close, after the latch) leaves the write buffer and `closed` exactly as they
\* were; and bytes come to the write buffer by an accepted start_send_frame
\* alone, a flush only moving them from the buffer to the stream, so that no
\* byte of the rejected frame reaches the stream in a later flush.
C22_RejectedSend ==
  [][/\ SendRejected =>
          /\ sends'[Len(sends')].opcode # "Close"
          /\ write_half.closed
          /\ write_half' = write_half
          /\ sent' = sent
     /\ (sends' = sends \/ SendRejected) =>
          sent' \o write_half'.buffer = sent \o write_half.buffer]_vars

\* The peer's Close has been echoed and the echo flushed; the application's
\* Text has then been rejected, and the stream and the buffer hold the echo
\* alone.
C22_Witness ==
  /\ Len(sends) = 2
  /\ sends[1] = [opcode |-> "Close", err |-> "", auto |-> TRUE]
  /\ sends[2] = [opcode |-> "Text", err |-> "ConnectionClosed", auto |-> FALSE]
  /\ pc = "idle" /\ ret.op = "write_frame" /\ ret.err = "ConnectionClosed"
  /\ sent = << 136, 0 >>
  /\ write_half.buffer = << >>

(***************************************************************************)
(* The flush against a stream that makes progress: it never fails, every   *)
(* write it completes accepts at least one byte, and it answers Pending    *)
(* only finitely often, the task being polled again after each Pending.    *)
(***************************************************************************)
\* The answers of such a stream that are not Pending: its poll_flush is Ok,
\* and its poll_write of a buffer that is not empty accepts n >= 1 bytes, for
\* every n up to the length of the buffer.
ProgressAnswers(buffer) ==
  IF buffer = << >> THEN {[flush |-> "Ok", write |-> "", n |-> 0]}
  ELSE {[flush |-> "Ok", write |-> "Ok", n |-> n] : n \in 1..Len(buffer)}

\* A turn of write_frame's poll_flush that is not Pending.
FlushProgresses == \E io \in ProgressAnswers(write_half.buffer) : WriteFlush(io)

\* A poll that returns Pending leaves the state as it is: it is a stuttering
\* step, and the task is polled again.
NextFlush ==
  \/ \E b \in BOOLEAN : set_auto_apply_mask(b)
  \/ \E frame \in WriteFrames, key \in WriteKeys : write_frame(frame, key)
  \/ FlushProgresses

\* Pending only finitely often: the turn that is not Pending comes.
SpecFlush == InitWrite /\ [][NextFlush]_vars /\ WF_vars(FlushProgresses)

\* write_frame has returned Ok with the write buffer empty.
FlushedOk ==
  /\ pc = "idle" /\ ret.op = "write_frame" /\ ret.err = ""
  /\ write_half.buffer = << >>
  /\ sent = accepted

\* C23: against a stream that never fails, accepts at least one byte in every
\* write it completes and answers Pending only finitely often, a write_frame
\* that has entered poll_flush returns Ok with the write buffer empty and all
\* the bytes on the stream, whatever the buffer holds and however the stream
\* splits it into partial writes.
C23_FlushProgress == (pc = "write") ~> FlushedOk

\* A client's masked Binary frame of two bytes has been flushed, eight bytes in
\* all.
C23_Witness ==
  /\ FlushedOk
  /\ write_half.role = "Client"
  /\ Len(sent) = 8
  /\ sends = << [opcode |-> "Binary", err |-> "", auto |-> FALSE] >>

====
